---- MODULE Spec2Model ----
(***************************************************************************)
(* Model of the Bright Data MCP gateway (src/server.js): startup parsing   *)
(* of the rate-limit specification, the sliding-window rate limiter, the   *)
(* tool invocation wrapper tool_fn, the registration of the browser tools, *)
(* the trigger-then-poll protocol of the web_data_* dataset tools and the  *)
(* authenticate handler.                                                   *)
(*                                                                         *)
(* JavaScript strings that the code inspects character by character (the   *)
(* RATE_LIMIT value, the authorization header, the request URL, tokens)    *)
(* are tuples of one-character strings.  An absent (undefined/null) string *)
(* and the empty string are both the empty tuple: every place of the code  *)
(* that reads one tests it for truthiness only (!s, s || '', a && ...).    *)
(*                                                                         *)
(* Handlers are async functions on one event loop: the code between two    *)
(* awaits runs without interleaving, so each action is one such stretch,   *)
(* from the event that resumes it to the next await, return or throw.      *)
(***************************************************************************)
EXTENDS Integers, Sequences, FiniteSets, TLC

VARIABLES
    now,                \* Date.now(), in milliseconds
    started,            \* FALSE when module evaluation threw (the process exits)
    rate_limit_config,  \* Null or [limit, window, display]
    debug_stats,        \* [tool_calls, session_calls, call_timestamps]
    env,                \* process.env: RATE_LIMIT, WEB_UNLOCKER_ZONE, BROWSER_ZONE
    inv,                \* the tool invocations issued so far, in order of issue
    conn                \* the authenticate calls issued so far, in order of issue

vars == <<now, started, rate_limit_config, debug_stats, env, inv, conn>>

(***************************************************************************)
(* Bounds of the model.                                                    *)
(***************************************************************************)
MaxCalls == 3           \* tool invocations issued in one behaviour
MaxNow == 2000          \* the clock stops advancing here (milliseconds)
PollCap == 1            \* Spec: status queries that may go unanswered per call
MaxProgressFails == 1   \* SpecPoll: progress notifications that may fail
MaxToolCalls == 2       \* SpecTools: tool invocations issued in one behaviour
MaxConns == 1           \* SpecAuth: authenticate calls in one behaviour
MaxStatCalls == 4       \* SpecStats: tool invocations issued in one behaviour
MaxBrowserCalls == 3    \* SpecBrowser: tool invocations issued in one behaviour
MaxSearchCalls == 1     \* SpecSearch: tool invocations issued in one behaviour
MaxStartupCalls == 2    \* SpecStartup: tool invocations issued in one behaviour
MaxGateConns == 2       \* SpecGate: authenticate calls in one behaviour
MaxGateCalls == 2       \* SpecGate: tool invocations issued in one behaviour
MaxSessionCalls == 2    \* SpecSessions: tool invocations issued in one behaviour

ClockSteps == {1000}    \* the clock advances by these amounts

Null == [null |-> TRUE]

(***************************************************************************)
(* Characters.                                                             *)
(***************************************************************************)
Digits == <<"0", "1", "2", "3", "4", "5", "6", "7", "8", "9">>

IsDigit(c) == \E k \in 1..10 : Digits[k] = c

DigitVal(c) == (CHOOSE k \in 1..10 : Digits[k] = c) - 1

RECURSIVE parseInt(_)
parseInt(s) ==
    IF s = <<>> THEN 0
    ELSE parseInt(SubSeq(s, 1, Len(s) - 1)) * 10 + DigitVal(s[Len(s)])

\* the character class [a-zA-Z0-9_-]
TokenChars ==
    {"a", "b", "c", "d", "e", "f", "g", "h", "i", "j", "k", "l", "m",
     "n", "o", "p", "q", "r", "s", "t", "u", "v", "w", "x", "y", "z",
     "A", "B", "C", "D", "E", "F", "G", "H", "I", "J", "K", "L", "M",
     "N", "O", "P", "Q", "R", "S", "T", "U", "V", "W", "X", "Y", "Z",
     "0", "1", "2", "3", "4", "5", "6", "7", "8", "9", "_", "-"}

(***************************************************************************)
(* search_url and what it calls.  A number is an integer or NaN.           *)
(***************************************************************************)
NaN == [nan |-> TRUE, value |-> 0]

Number(n) == [nan |-> FALSE, value |-> n]

\* x * n and x + n on numbers
Times(x, n) == IF x.nan THEN NaN ELSE Number(x.value * n)

Plus(x, n) == IF x.nan THEN NaN ELSE Number(x.value + n)

WhiteSpace == {" ", "\t", "\n"}

DecimalChars == {Digits[k] : k \in 1..10}

HexLetters == <<"a", "b", "c", "d", "e", "f">>

HexLettersUpper == <<"A", "B", "C", "D", "E", "F">>

HexChars ==
    DecimalChars \cup {HexLetters[k] : k \in 1..6} \cup {HexLettersUpper[k] : k \in 1..6}

HexVal(c) ==
    IF IsDigit(c) THEN DigitVal(c)
    ELSE 9 + (CHOOSE k \in 1..6 : HexLetters[k] = c \/ HexLettersUpper[k] = c)

RECURSIVE TrimStart(_)
TrimStart(s) ==
    IF s # <<>> /\ s[1] \in WhiteSpace THEN TrimStart(Tail(s)) ELSE s

\* the longest prefix of s made of chars
RECURSIVE LeadingRun(_, _)
LeadingRun(s, chars) ==
    IF s # <<>> /\ s[1] \in chars THEN <<s[1]>> \o LeadingRun(Tail(s), chars) ELSE <<>>

RECURSIVE ValueIn(_, _)
ValueIn(digits, radix) ==
    IF digits = <<>> THEN 0
    ELSE ValueIn(SubSeq(digits, 1, Len(digits) - 1), radix) * radix
            + HexVal(digits[Len(digits)])

\* parseInt(string) of an arbitrary string, no radix given: leading white
\* space is skipped, a sign is taken, a 0x prefix selects radix 16, and the
\* leading run of digits is the value; without a digit the result is NaN
parseInt_string(string) ==
    LET s == TrimStart(string)
        negative == s # <<>> /\ s[1] = "-"
        unsigned == IF s # <<>> /\ s[1] \in {"+", "-"} THEN Tail(s) ELSE s
        hex == Len(unsigned) >= 2 /\ unsigned[1] = "0" /\ unsigned[2] \in {"x", "X"}
        digits == IF hex THEN LeadingRun(SubSeq(unsigned, 3, Len(unsigned)), HexChars)
                  ELSE LeadingRun(unsigned, DecimalChars)
        magnitude == ValueIn(digits, IF hex THEN 16 ELSE 10)
    IN  IF digits = <<>> THEN NaN
        ELSE Number(IF negative THEN 0 - magnitude ELSE magnitude)

\* the characters encodeURIComponent leaves alone
UriUnreserved == TokenChars \cup {".", "!", "~", "*", "'", "(", ")"}

PercentEncoded(c) ==
    CASE c = " " -> <<"%", "2", "0">>
      [] c = "#" -> <<"%", "2", "3">>
      [] c = "%" -> <<"%", "2", "5">>
      [] c = "&" -> <<"%", "2", "6">>
      [] c = "+" -> <<"%", "2", "B">>
      [] c = "/" -> <<"%", "2", "F">>
      [] c = "=" -> <<"%", "3", "D">>
      [] c = "?" -> <<"%", "3", "F">>

RECURSIVE encodeURIComponent(_)
encodeURIComponent(s) ==
    IF s = <<>> THEN <<>>
    ELSE (IF s[1] \in UriUnreserved THEN <<s[1]>> ELSE PercentEncoded(s[1]))
            \o encodeURIComponent(Tail(s))

\* the URL `${base}${q}&${param}=${value}`
SearchUrl(base, q, param, value) ==
    [base |-> base, q |-> q, param |-> param, value |-> value]

search_url(engine, query, cursor) ==
    LET q == encodeURIComponent(query)
        page == IF cursor # <<>> THEN parseInt_string(cursor) ELSE Number(0)
        start == Times(page, 10)
    IN  IF engine = "yandex"
        THEN SearchUrl("https://yandex.com/search/?text=", q, "p", page)
        ELSE IF engine = "bing"
        THEN SearchUrl("https://www.bing.com/search?q=", q, "first", Plus(start, 1))
        ELSE SearchUrl("https://www.google.com/search?q=", q, "start", start)

(***************************************************************************)
(* parse_rate_limit: /^(\d+)\/(\d+)([mhs])$/ ; slash is the position of    *)
(* the "/" of a match (there is at most one: both groups are digits only). *)
(***************************************************************************)
RateLimitSlash(s) ==
    {k \in 2..(Len(s) - 2) :
        /\ s[k] = "/"
        /\ \A j \in 1..(k - 1) : IsDigit(s[j])
        /\ \A j \in (k + 1)..(Len(s) - 1) : IsDigit(s[j])
        /\ s[Len(s)] \in {"m", "h", "s"}}

parse_rate_limit(rate_limit_str) ==
    IF rate_limit_str = <<>> THEN [threw |-> FALSE, value |-> Null]
    ELSE IF RateLimitSlash(rate_limit_str) = {} THEN [threw |-> TRUE, value |-> Null]
    ELSE LET k == CHOOSE j \in RateLimitSlash(rate_limit_str) : TRUE
             limit == SubSeq(rate_limit_str, 1, k - 1)
             time == SubSeq(rate_limit_str, k + 1, Len(rate_limit_str) - 1)
             unit == rate_limit_str[Len(rate_limit_str)]
             multiplier == IF unit = "h" THEN 3600 ELSE IF unit = "m" THEN 60 ELSE 1
         IN  [threw |-> FALSE,
              value |-> [limit |-> parseInt(limit),
                         window |-> parseInt(time) * multiplier * 1000,
                         display |-> rate_limit_str]]

(***************************************************************************)
(* check_rate_limit: the new call_timestamps and whether it threw.         *)
(***************************************************************************)
\* variant: keeps a timestamp that lies exactly at the window start
PruneTimestamps_inclusive(timestamps, window_start) ==
    LET Newer(timestamp) == timestamp >= window_start
    IN  SelectSeq(timestamps, Newer)

\* variant: nothing is pruned
PruneTimestamps_none(timestamps, window_start) == timestamps

PruneTimestamps(timestamps, window_start) ==
    LET Newer(timestamp) == timestamp > window_start
    IN  SelectSeq(timestamps, Newer)

\* variant: off by one in the comparison
LimitReached_strict(count, limit) == count > limit

LimitReached(count, limit) == count >= limit

\* variant: an admitted call is not recorded
check_rate_limit_unrecorded(config, timestamps, t) ==
    IF config = Null THEN [threw |-> FALSE, call_timestamps |-> timestamps]
    ELSE LET kept == PruneTimestamps(timestamps, t - config.window)
         IN  [threw |-> LimitReached(Len(kept), config.limit), call_timestamps |-> kept]

\* variant: calls are recorded also when no limit is configured
check_rate_limit_always_records(config, timestamps, t) ==
    IF config = Null THEN [threw |-> FALSE, call_timestamps |-> Append(timestamps, t)]
    ELSE LET kept == PruneTimestamps(timestamps, t - config.window)
         IN  IF LimitReached(Len(kept), config.limit)
             THEN [threw |-> TRUE, call_timestamps |-> kept]
             ELSE [threw |-> FALSE, call_timestamps |-> Append(kept, t)]

\* variant: a rejected call is recorded too
check_rate_limit_records_rejected(config, timestamps, t) ==
    IF config = Null THEN [threw |-> FALSE, call_timestamps |-> timestamps]
    ELSE LET kept == PruneTimestamps(timestamps, t - config.window)
         IN  [threw |-> LimitReached(Len(kept), config.limit),
              call_timestamps |-> Append(kept, t)]

check_rate_limit(config, timestamps, t) ==
    IF config = Null THEN [threw |-> FALSE, call_timestamps |-> timestamps]
    ELSE LET window_start == t - config.window
             kept == PruneTimestamps(timestamps, window_start)
         IN  IF LimitReached(Len(kept), config.limit)
             THEN [threw |-> TRUE, call_timestamps |-> kept]
             ELSE [threw |-> FALSE, call_timestamps |-> Append(kept, t)]

(***************************************************************************)
(* Values.  A session is what authenticate returns; ctx.session is absent  *)
(* (NoSession) when the framework attached none.                           *)
(***************************************************************************)
NoSession == [absent |-> TRUE]

NoResponse == [none |-> TRUE]

Pending == [kind |-> "pending"]

Ok(value) == [kind |-> "ok", value |-> value]

\* new Error(message): an error without a .response
PlainError(message, arg) ==
    [kind |-> "error", message |-> message, arg |-> arg, response |-> NoResponse]

\* what axios rejects with: .response is set when the upstream answered
AxiosError(response) ==
    [kind |-> "error", message |-> "AxiosError", arg |-> <<>>, response |-> response]

Str_mcp_unlocker == <<"m", "c", "p", "_", "u", "n", "l", "o", "c", "k", "e", "r">>
Str_mcp_browser == <<"m", "c", "p", "_", "b", "r", "o", "w", "s", "e", "r">>

\* a || b on strings
OrElse(a, b) == IF a # <<>> THEN a ELSE b

unlocker_zone == OrElse(env.WEB_UNLOCKER_ZONE, Str_mcp_unlocker)

\* variant: without a session a process-wide API token is used
SessionField_default(session, field) ==
    IF session = NoSession
    THEN (IF field = "apiToken" THEN <<"e", "n", "v">> ELSE <<>>)
    ELSE session[field]

\* ctx.session?.field
SessionField(session, field) ==
    IF session = NoSession THEN <<>> ELSE session[field]

(***************************************************************************)
(* The registered tools.  DatasetTools stands for the web_data_* tools of  *)
(* the datasets table, SingleCallTools for the tools that await one        *)
(* upstream request, BrowserTools for the tools of browser_tools.js.       *)
(***************************************************************************)
SingleCallTools == {"search_engine", "scrape_as_html"}
StatsTools == {"session_stats"}
DatasetTools == {"web_data_amazon_product"}
BrowserTools == {"scraping_browser_navigate"}

\* the tools whose execute is tool_fn(name, ...)
WrappedTools == SingleCallTools \cup StatsTools \cup DatasetTools

max_attempts == 600

(***************************************************************************)
(* Upstream answers.  An error answer is what axios rejects with: an HTTP  *)
(* error response (status, body) or no response at all (transport error).  *)
(* A body is a string of some length, or a parsed JSON object.             *)
(***************************************************************************)
TextBody == [type |-> "string", length |-> 5]
EmptyBody == [type |-> "string", length |-> 0]
ObjectBody == [type |-> "object", length |-> 0]

UpstreamErrors ==
    {AxiosError([status |-> 500, data |-> TextBody]),
     AxiosError([status |-> 502, data |-> EmptyBody]),
     AxiosError([status |-> 400, data |-> ObjectBody]),
     AxiosError(NoResponse)}

\* the errors of a request made with responseType 'text': the body is text
TextUpstreamErrors == {e \in UpstreamErrors : e.response = NoResponse
                                              \/ e.response.data.type = "string"}

\* a successful answer carrying response.data
Data(data) == [kind |-> "data", data |-> data]

IsError(answer) == answer.kind = "error"

\* answers of a single-call request
RequestAnswers == {Data("body")}

\* answers of the trigger endpoint: data.snapshot_id present or not
TriggerAnswers == {Data("snapshot"), Data("no_snapshot")}

\* answers of the snapshot endpoint: the value of data.status
RunningAnswer == Data("running")
FinalAnswers == {Data("ready"), Data("failed"), Data("no_status")}

\* the arguments of an invocation, when the model does not follow them
NoData == [untracked |-> TRUE]

NoUrl == [none |-> TRUE]

(***************************************************************************)
(* One tool invocation.                                                    *)
(***************************************************************************)
NewInv(name, session, progress) ==
    [tool |-> name,
     data |-> NoData,              \* the tool's arguments, where they are followed
     url |-> NoUrl,                \* data.url of the search_engine request
     session |-> session,          \* ctx.session
     reportProgress |-> progress,  \* whether ctx.reportProgress exists
     at |-> now,                   \* Date.now() when the call was issued
     pc |-> "start",
     rl |-> "none",                \* outcome of check_rate_limit for this call
     counted |-> FALSE,            \* the usage counters were incremented for it
     ran |-> FALSE,                \* the tool's underlying logic was entered
     apiToken |-> <<>>,            \* extendedCtx.apiToken
     unlockerZone |-> <<>>,        \* extendedCtx.unlockerZone
     browserZone |-> <<>>,         \* extendedCtx.browserZone
     sent |-> {},                  \* bearer tokens of the upstream requests made
     triggers |-> 0,               \* trigger requests issued
     queries |-> 0,                \* snapshot-status requests issued
     reports |-> 0,                \* ctx.reportProgress calls made
     attempts |-> 0,               \* the polling loop's attempts
     snapshot |-> FALSE,           \* the trigger answer carried a snapshot_id
     answer |-> Pending,           \* the last upstream answer received
     poll_errors |-> FALSE,        \* some status query was answered by an error
     report_errors |-> 0,          \* ctx.reportProgress calls that rejected
     dur_logs |-> 0,               \* "tool finished in" lines logged
     result |-> Pending]

\* variant: the counter is set, not incremented
CountCall_overwrite(tool_calls, name) ==
    [n \in DOMAIN tool_calls \cup {name} |->
        IF n = name THEN 1 ELSE tool_calls[n]]

\* debug_stats.tool_calls[name] = debug_stats.tool_calls[name]||0; ...++
CountCall(tool_calls, name) ==
    LET old == IF name \in DOMAIN tool_calls THEN tool_calls[name] ELSE 0
    IN  [n \in DOMAIN tool_calls \cup {name} |->
            IF n = name THEN old + 1 ELSE tool_calls[n]]

\* message?.length
HasLength(data) == data.type = "string" /\ data.length > 0

\* tool_fn's catch block: the error the wrapper throws for error e of fn
tool_fn_catch(e) ==
    IF e.response # NoResponse /\ HasLength(e.response.data)
    THEN PlainError("HTTP", <<e.response.status, e.response.data>>)
    ELSE e

\* fn returned value: return await fn(...), then the finally block
FnReturns(rec, value) ==
    [rec EXCEPT !.pc = "done", !.result = Ok(value), !.dur_logs = @ + 1]

\* fn threw e: the catch block, then the finally block
FnThrows(rec, e) ==
    [rec EXCEPT !.pc = "done", !.result = tool_fn_catch(e), !.dur_logs = @ + 1]

\* variant: the loop condition admits one attempt too many
PollLoop_inclusive(rec) ==
    IF rec.attempts <= max_attempts
    THEN IF rec.reportProgress
         THEN [rec EXCEPT !.pc = "progress", !.reports = @ + 1]
         ELSE [rec EXCEPT !.pc = "query", !.queries = @ + 1,
                          !.sent = @ \cup {rec.apiToken}]
    ELSE FnThrows(rec, PlainError("Timeout waiting for data", max_attempts))

\* the head of the polling loop, up to its first await
PollLoop(rec) ==
    IF rec.attempts < max_attempts
    THEN IF rec.reportProgress
         THEN [rec EXCEPT !.pc = "progress", !.reports = @ + 1]
         ELSE [rec EXCEPT !.pc = "query", !.queries = @ + 1,
                          !.sent = @ \cup {rec.apiToken}]
    ELSE FnThrows(rec, PlainError("Timeout waiting for data", max_attempts))

\* fn(data, extendedCtx) up to its first await
StartFn(rec, stats) ==
    LET r == [rec EXCEPT !.ran = TRUE]
    IN  IF r.tool \in StatsTools THEN FnReturns(r, stats.tool_calls)
        ELSE IF r.tool \in DatasetTools
        THEN [r EXCEPT !.pc = "trigger", !.triggers = @ + 1,
                       !.sent = @ \cup {r.apiToken}]
        ELSE [r EXCEPT !.pc = "request", !.sent = @ \cup {r.apiToken},
                       !.url = IF r.tool = "search_engine" /\ r.data # NoData
                               THEN search_url(r.data.engine, r.data.query,
                                               r.data.cursor)
                               ELSE NoUrl]

\* the function tool_fn returns, from its entry to the first await inside fn
tool_fn(name, data, session, progress) ==
    /\ started
    /\ name \in WrappedTools
    /\ LET rl == check_rate_limit(rate_limit_config, debug_stats.call_timestamps, now)
           call == [NewInv(name, session, progress) EXCEPT !.data = data]
       IN  IF rl.threw
           THEN /\ debug_stats' = [debug_stats EXCEPT
                                      !.call_timestamps = rl.call_timestamps]
                /\ inv' = Append(inv, [call EXCEPT
                              !.pc = "done", !.rl = "rejected",
                              !.result = PlainError("Rate limit exceeded",
                                                    rate_limit_config.display)])
           ELSE LET stats == [tool_calls |-> CountCall(debug_stats.tool_calls, name),
                              session_calls |-> debug_stats.session_calls + 1,
                              call_timestamps |-> rl.call_timestamps]
                    passed == [call EXCEPT !.rl = "passed", !.counted = TRUE]
                    apiToken == SessionField(session, "apiToken")
                IN  /\ debug_stats' = stats
                    /\ inv' = Append(inv,
                          IF apiToken = <<>>
                          THEN [passed EXCEPT !.pc = "done",
                                   !.result = PlainError(
                                       "No API token available in session", <<>>)]
                          ELSE StartFn([passed EXCEPT
                                   !.apiToken = apiToken,
                                   !.unlockerZone =
                                       OrElse(SessionField(session, "unlockerZone"),
                                              unlocker_zone),
                                   !.browserZone =
                                       OrElse(SessionField(session, "browserZone"),
                                              OrElse(env.BROWSER_ZONE, Str_mcp_browser))],
                                  stats))
    /\ UNCHANGED <<now, started, rate_limit_config, env, conn>>

\* a single-call tool's upstream request is answered
RequestResponse(i, answer) ==
    /\ i \in DOMAIN inv
    /\ inv[i].pc = "request"
    /\ inv' = [inv EXCEPT ![i] =
                  IF IsError(answer) THEN FnThrows([@ EXCEPT !.answer = answer], answer)
                  ELSE FnReturns([@ EXCEPT !.answer = answer], answer.data)]
    /\ UNCHANGED <<now, started, rate_limit_config, debug_stats, env, conn>>

\* variant: polling starts whether or not the answer carries a snapshot_id
TriggerResponse_unchecked(i, answer) ==
    /\ i \in DOMAIN inv
    /\ inv[i].pc = "trigger"
    /\ inv' = [inv EXCEPT ![i] =
                  IF IsError(answer) THEN FnThrows([@ EXCEPT !.answer = answer], answer)
                  ELSE PollLoop([@ EXCEPT !.answer = answer,
                                          !.snapshot = (answer.data = "snapshot")])]
    /\ UNCHANGED <<now, started, rate_limit_config, debug_stats, env, conn>>

\* the trigger request is answered
TriggerResponse(i, answer) ==
    /\ i \in DOMAIN inv
    /\ inv[i].pc = "trigger"
    /\ inv' = [inv EXCEPT ![i] =
                  IF IsError(answer) THEN FnThrows([@ EXCEPT !.answer = answer], answer)
                  ELSE IF answer.data = "no_snapshot"
                  THEN FnThrows([@ EXCEPT !.answer = answer],
                                PlainError("No snapshot ID returned from request", <<>>))
                  ELSE PollLoop([@ EXCEPT !.answer = answer, !.snapshot = TRUE])]
    /\ UNCHANGED <<now, started, rate_limit_config, debug_stats, env, conn>>

\* await ctx.reportProgress(...) settles: resolved (ok) or rejected
ProgressSettles(i, ok) ==
    /\ i \in DOMAIN inv
    /\ inv[i].pc = "progress"
    /\ inv' = [inv EXCEPT ![i] =
                  IF ok
                  THEN [@ EXCEPT !.pc = "query", !.queries = @ + 1,
                                 !.sent = @ \cup {inv[i].apiToken}]
                  ELSE [@ EXCEPT !.pc = "sleep", !.attempts = @ + 1,
                                 !.report_errors = @ + 1]]
    /\ UNCHANGED <<now, started, rate_limit_config, debug_stats, env, conn>>

\* variant: the try block does not cover the status query
SnapshotResponse_propagates(i, answer) ==
    /\ i \in DOMAIN inv
    /\ inv[i].pc = "query"
    /\ inv' = [inv EXCEPT ![i] =
                  IF IsError(answer)
                  THEN FnThrows([@ EXCEPT !.answer = answer, !.poll_errors = TRUE], answer)
                  ELSE IF answer.data = "running"
                  THEN [@ EXCEPT !.pc = "sleep", !.attempts = @ + 1,
                                 !.answer = answer]
                  ELSE FnReturns([@ EXCEPT !.answer = answer], answer.data)]
    /\ UNCHANGED <<now, started, rate_limit_config, debug_stats, env, conn>>

\* variant: the catch block does not count the failed attempt
SnapshotResponse_uncounted_error(i, answer) ==
    /\ i \in DOMAIN inv
    /\ inv[i].pc = "query"
    /\ inv' = [inv EXCEPT ![i] =
                  IF IsError(answer)
                  THEN [@ EXCEPT !.pc = "sleep",
                                 !.answer = answer, !.poll_errors = TRUE]
                  ELSE IF answer.data = "running"
                  THEN [@ EXCEPT !.pc = "sleep", !.attempts = @ + 1,
                                 !.answer = answer]
                  ELSE FnReturns([@ EXCEPT !.answer = answer], answer.data)]
    /\ UNCHANGED <<now, started, rate_limit_config, debug_stats, env, conn>>

\* variant: only the status 'ready' ends the poll
SnapshotResponse_ready_only(i, answer) ==
    /\ i \in DOMAIN inv
    /\ inv[i].pc = "query"
    /\ inv' = [inv EXCEPT ![i] =
                  IF IsError(answer)
                  THEN [@ EXCEPT !.pc = "sleep", !.attempts = @ + 1,
                                 !.answer = answer, !.poll_errors = TRUE]
                  ELSE IF answer.data # "ready"
                  THEN [@ EXCEPT !.pc = "sleep", !.attempts = @ + 1,
                                 !.answer = answer]
                  ELSE FnReturns([@ EXCEPT !.answer = answer], answer.data)]
    /\ UNCHANGED <<now, started, rate_limit_config, debug_stats, env, conn>>

\* the snapshot-status request is answered
SnapshotResponse(i, answer) ==
    /\ i \in DOMAIN inv
    /\ inv[i].pc = "query"
    /\ inv' = [inv EXCEPT ![i] =
                  IF IsError(answer)
                  THEN [@ EXCEPT !.pc = "sleep", !.attempts = @ + 1,
                                 !.answer = answer, !.poll_errors = TRUE]
                  ELSE IF answer.data = "running"
                  THEN [@ EXCEPT !.pc = "sleep", !.attempts = @ + 1,
                                 !.answer = answer]
                  ELSE FnReturns([@ EXCEPT !.answer = answer], answer.data)]
    /\ UNCHANGED <<now, started, rate_limit_config, debug_stats, env, conn>>

\* the one-second timer fires: back to the loop condition
Wake(i) ==
    /\ i \in DOMAIN inv
    /\ inv[i].pc = "sleep"
    /\ inv' = [inv EXCEPT ![i] = PollLoop(@)]
    /\ UNCHANGED <<now, started, rate_limit_config, debug_stats, env, conn>>

(***************************************************************************)
(* The browser tools: registered with their own execute, lines 833-849.    *)
(* originalExecute is the handler of browser_tools.js; the model follows   *)
(* it only as entered, then returning or throwing.                         *)
(***************************************************************************)
\* variant: the guard looks at the session only, not at its browser zone
browser_execute_session_only(name, session) ==
    /\ started
    /\ name \in BrowserTools
    /\ LET call == NewInv(name, session, FALSE)
       IN  inv' = Append(inv,
              IF session = NoSession
              THEN [call EXCEPT !.pc = "done",
                       !.result = PlainError("Browser tools require a browser zone", <<>>)]
              ELSE [call EXCEPT !.pc = "browser", !.ran = TRUE,
                       !.apiToken = session.apiToken,
                       !.browserZone = session.browserZone])
    /\ UNCHANGED <<now, started, rate_limit_config, debug_stats, env, conn>>

browser_execute(name, session) ==
    /\ started
    /\ name \in BrowserTools
    /\ LET call == NewInv(name, session, FALSE)
           browserZone == SessionField(session, "browserZone")
       IN  inv' = Append(inv,
              IF browserZone = <<>>
              THEN [call EXCEPT !.pc = "done",
                       !.result = PlainError("Browser tools require a browser zone", <<>>)]
              ELSE [call EXCEPT !.pc = "browser", !.ran = TRUE,
                       !.apiToken = session.apiToken,
                       !.browserZone = session.browserZone])
    /\ UNCHANGED <<now, started, rate_limit_config, debug_stats, env, conn>>

BrowserSettles(i, ok) ==
    /\ i \in DOMAIN inv
    /\ inv[i].pc = "browser"
    /\ inv' = [inv EXCEPT ![i] =
                  [@ EXCEPT !.pc = "done",
                            !.result = IF ok THEN Ok("browser result")
                                       ELSE PlainError("browser tool failed", <<>>)]]
    /\ UNCHANGED <<now, started, rate_limit_config, debug_stats, env, conn>>

\* time passes
Tick(d) ==
    /\ now + d <= MaxNow
    /\ now' = now + d
    /\ UNCHANGED <<started, rate_limit_config, debug_stats, env, inv, conn>>


(***************************************************************************)
(* authenticate and extractUrlParams.                                      *)
(***************************************************************************)
Str_Bearer == <<"B", "e", "a", "r", "e", "r", " ">>
Str_token == <<"t", "o", "k", "e", "n", "=">>
Str_unlocker == <<"u", "n", "l", "o", "c", "k", "e", "r", "=">>
Str_browser == <<"b", "r", "o", "w", "s", "e", "r", "=">>

\* s.startsWith(prefix)
StartsWith(s, prefix) ==
    Len(s) >= Len(prefix) /\ SubSeq(s, 1, Len(prefix)) = prefix

\* the longest run of TokenChars of s that starts at position p
RECURSIVE TokenRun(_, _)
TokenRun(s, p) ==
    IF p <= Len(s) /\ s[p] \in TokenChars THEN <<s[p]>> \o TokenRun(s, p + 1) ELSE <<>>

\* url.match(/key([a-zA-Z0-9_-]+)/): group 1 of the leftmost match, or <<>>
MatchParam(url, key) ==
    LET starts == {p \in 1..Len(url) :
                      /\ p + Len(key) <= Len(url)
                      /\ SubSeq(url, p, p + Len(key) - 1) = key
                      /\ url[p + Len(key)] \in TokenChars}
    IN  IF starts = {} THEN <<>>
        ELSE LET first == CHOOSE p \in starts : \A q \in starts : p <= q
             IN  TokenRun(url, first + Len(key))

extractUrlParams(request) ==
    [token |-> MatchParam(request.url, Str_token),
     unlocker |-> MatchParam(request.url, Str_unlocker),
     browser |-> MatchParam(request.url, Str_browser)]

\* clientApiToken.match(/^[a-zA-Z0-9_-]+$/)
ValidTokenFormat(token) ==
    token # <<>> /\ \A k \in DOMAIN token : token[k] \in TokenChars

\* variant: a URL token, when there is one, is preferred to the header
ClientApiToken_url_first(request) ==
    IF extractUrlParams(request).token # <<>>
    THEN extractUrlParams(request).token
    ELSE IF request.authorization # <<>> /\ StartsWith(request.authorization, Str_Bearer)
    THEN SubSeq(request.authorization, 8, Len(request.authorization))
    ELSE <<>>

\* the credential authenticate takes from the request
ClientApiToken(request) ==
    IF request.authorization # <<>> /\ StartsWith(request.authorization, Str_Bearer)
    THEN SubSeq(request.authorization, 8, Len(request.authorization))
    ELSE extractUrlParams(request).token

Unauthorized(statusText) == [kind |-> "401", statusText |-> statusText]

Authenticated(session) == [kind |-> "session", session |-> session]

\* variant: the two zones are stored in each other's place
ReturnedSession_swapped(call) ==
    [apiToken |-> call.clientApiToken,
     unlockerZone |-> call.browserZone,
     browserZone |-> call.unlockerZone]

\* the object authenticate returns, lines 162-166
ReturnedSession(call) ==
    [apiToken |-> call.clientApiToken,
     unlockerZone |-> call.unlockerZone,
     browserZone |-> call.browserZone]

ZoneRequest(endpoint, apiToken, zone) ==
    [endpoint |-> endpoint, apiToken |-> apiToken, zone |-> zone]

\* variant: the zone check is started before the token's format is checked
authenticate_zones_first(request) ==
    /\ started
    /\ LET clientApiToken == ClientApiToken(request)
           urlParams == extractUrlParams(request)
           call == [request |-> request,
                    pc |-> "done",
                    clientApiToken |-> clientApiToken,
                    unlockerZone |-> OrElse(urlParams.unlocker,
                                        OrElse(env.WEB_UNLOCKER_ZONE, Str_mcp_unlocker)),
                    browserZone |-> OrElse(urlParams.browser,
                                       OrElse(env.BROWSER_ZONE, Str_mcp_browser)),
                    upstream |-> <<>>,
                    listing |-> Pending,
                    creation |-> Pending,
                    outcome |-> Pending]
           requested == [call EXCEPT
                            !.upstream = <<ZoneRequest("get_active_zones",
                                                       clientApiToken, <<>>)>>]
       IN  conn' = Append(conn,
              IF clientApiToken = <<>>
              THEN [call EXCEPT !.outcome = Unauthorized("Unauthorized - Missing API Token")]
              ELSE IF ~ValidTokenFormat(clientApiToken)
              THEN [requested EXCEPT !.outcome = Unauthorized("Invalid API Token Format")]
              ELSE [requested EXCEPT !.pc = "zones"])
    /\ UNCHANGED <<now, started, rate_limit_config, debug_stats, env, inv>>

\* authenticate(request), up to the first await of ensure_required_zones
authenticate(request) ==
    /\ started
    /\ LET clientApiToken == ClientApiToken(request)
           urlParams == extractUrlParams(request)
           unlockerZone == OrElse(urlParams.unlocker,
                               OrElse(env.WEB_UNLOCKER_ZONE, Str_mcp_unlocker))
           browserZone == OrElse(urlParams.browser,
                              OrElse(env.BROWSER_ZONE, Str_mcp_browser))
           call == [request |-> request,
                    pc |-> "done",
                    clientApiToken |-> clientApiToken,
                    unlockerZone |-> unlockerZone,
                    browserZone |-> browserZone,
                    upstream |-> <<>>,       \* the upstream requests made
                    listing |-> Pending,     \* the answer of GET /zone/get_active_zones
                    creation |-> Pending,    \* the answer of POST /zone
                    outcome |-> Pending]     \* what authenticate returned or threw
       IN  conn' = Append(conn,
              IF clientApiToken = <<>>
              THEN [call EXCEPT !.outcome = Unauthorized("Unauthorized - Missing API Token")]
              ELSE IF ~ValidTokenFormat(clientApiToken)
              THEN [call EXCEPT !.outcome = Unauthorized("Invalid API Token Format")]
              ELSE [call EXCEPT
                       !.pc = "zones",
                       !.upstream = <<ZoneRequest("get_active_zones",
                                                  clientApiToken, <<>>)>>])
    /\ UNCHANGED <<now, started, rate_limit_config, debug_stats, env, inv>>

\* variant: a failed zone listing fails the authentication
ZonesListed_fatal(c, answer) ==
    /\ c \in DOMAIN conn
    /\ conn[c].pc = "zones"
    /\ conn' = [conn EXCEPT ![c] =
                   IF IsError(answer)
                   THEN [@ EXCEPT !.pc = "done", !.listing = answer,
                                  !.outcome = Unauthorized("Zone check failed")]
                   ELSE IF answer.data = "zone_missing"
                   THEN [@ EXCEPT !.pc = "create", !.listing = answer,
                            !.upstream = Append(@, ZoneRequest("zone",
                                conn[c].clientApiToken, conn[c].unlockerZone))]
                   ELSE [@ EXCEPT !.pc = "done", !.listing = answer,
                                  !.outcome = Authenticated(ReturnedSession(conn[c]))]]
    /\ UNCHANGED <<now, started, rate_limit_config, debug_stats, env, inv>>

\* the zone listing is answered: an error (axios rejects, or the data is not
\* a list and zones.some throws), or a list that has the zone or lacks it
ZonesListed(c, answer) ==
    /\ c \in DOMAIN conn
    /\ conn[c].pc = "zones"
    /\ conn' = [conn EXCEPT ![c] =
                   IF ~IsError(answer) /\ answer.data = "zone_missing"
                   THEN [@ EXCEPT !.pc = "create", !.listing = answer,
                            !.upstream = Append(@, ZoneRequest("zone",
                                conn[c].clientApiToken, conn[c].unlockerZone))]
                   ELSE [@ EXCEPT !.pc = "done", !.listing = answer,
                                  !.outcome = Authenticated(ReturnedSession(conn[c]))]]
    /\ UNCHANGED <<now, started, rate_limit_config, debug_stats, env, inv>>

\* the zone creation is answered
ZoneCreated(c, answer) ==
    /\ c \in DOMAIN conn
    /\ conn[c].pc = "create"
    /\ conn' = [conn EXCEPT ![c] =
                   [@ EXCEPT !.pc = "done", !.creation = answer,
                             !.outcome = Authenticated(ReturnedSession(conn[c]))]]
    /\ UNCHANGED <<now, started, rate_limit_config, debug_stats, env, inv>>

(***************************************************************************)
(* Startup: module evaluation, lines 30-170.                               *)
(***************************************************************************)
Startup(environment) ==
    LET parsed == parse_rate_limit(environment.RATE_LIMIT)
    IN  /\ env = environment
        /\ started = ~parsed.threw
        /\ rate_limit_config = parsed.value
        /\ debug_stats = [tool_calls |-> [n \in {} |-> 0],
                          session_calls |-> 0,
                          call_timestamps |-> <<>>]
        /\ now = 0
        /\ inv = <<>>
        /\ conn = <<>>

Env(rate_limit, unlocker, browser) ==
    [RATE_LIMIT |-> rate_limit, WEB_UNLOCKER_ZONE |-> unlocker, BROWSER_ZONE |-> browser]

(***************************************************************************)
(* Spec: the rate limiter under concurrent dataset tool invocations.  Any  *)
(* number of them are in flight at once, each suspended at its trigger     *)
(* request, at a status query or at the polling sleep, and the clock       *)
(* advances between any two steps.                                         *)
(***************************************************************************)
RateLimits ==
    {<<>>,
     <<"1", "/", "1", "s">>,
     <<"2", "/", "2", "s">>}

SessionA ==
    [apiToken |-> <<"t", "k", "A">>,
     unlockerZone |-> Str_mcp_unlocker,
     browserZone |-> Str_mcp_browser]

TransportError == AxiosError(NoResponse)

Init == \E r \in RateLimits : Startup(Env(r, <<>>, <<>>))

Invoke ==
    /\ Len(inv) < MaxCalls
    /\ \E name \in DatasetTools \cup StatsTools : tool_fn(name, NoData, SessionA, FALSE)

Trigger ==
    \E i \in DOMAIN inv, a \in {Data("snapshot"), TransportError} :
        TriggerResponse(i, a)

Poll ==
    \E i \in DOMAIN inv, a \in {RunningAnswer, Data("ready")} :
        /\ a = RunningAnswer => inv[i].attempts < PollCap
        /\ SnapshotResponse(i, a)

Timer == \E i \in DOMAIN inv : Wake(i)

Clock == \E d \in ClockSteps : Tick(d)

Next == Invoke \/ Trigger \/ Poll \/ Timer \/ Clock

Spec == Init /\ [][Next]_vars

(***************************************************************************)
(* SpecTools: invocations of every kind of registered tool, with and       *)
(* without a session, against every kind of upstream answer.  The clock    *)
(* stands still: with a limit of one call per second configured the        *)
(* second invocation of a wrapped tool is rejected.                        *)
(***************************************************************************)
ToolRateLimits == {<<>>, <<"1", "/", "1", "s">>}

ToolSessions == {NoSession, SessionA}

InitTools == \E r \in ToolRateLimits : Startup(Env(r, <<>>, <<>>))

ToolCall ==
    /\ Len(inv) < MaxToolCalls
    /\ \E name \in WrappedTools, session \in ToolSessions :
           tool_fn(name, NoData, session, FALSE)

BrowserCall ==
    /\ Len(inv) < MaxToolCalls
    /\ \E name \in BrowserTools, session \in ToolSessions :
           browser_execute(name, session)

RequestAnswer ==
    \E i \in DOMAIN inv, a \in RequestAnswers \cup TextUpstreamErrors :
        RequestResponse(i, a)

TriggerAnswer ==
    \E i \in DOMAIN inv, a \in TriggerAnswers \cup UpstreamErrors :
        TriggerResponse(i, a)

SnapshotAnswer ==
    \E i \in DOMAIN inv, a \in {RunningAnswer} \cup FinalAnswers \cup UpstreamErrors :
        /\ a \in FinalAnswers \/ inv[i].attempts < PollCap
        /\ SnapshotResponse(i, a)

BrowserAnswer == \E i \in DOMAIN inv, ok \in BOOLEAN : BrowserSettles(i, ok)

NextTools ==
    ToolCall \/ BrowserCall \/ RequestAnswer \/ TriggerAnswer \/ SnapshotAnswer
        \/ Timer \/ BrowserAnswer

SpecTools == InitTools /\ [][NextTools]_vars

(***************************************************************************)
(* SpecPoll: one dataset tool invocation, followed through the whole       *)
(* polling loop against any sequence of upstream answers, by a caller      *)
(* with or without progress notification.                                  *)
(***************************************************************************)
PollErrors == {AxiosError([status |-> 500, data |-> TextBody]), TransportError}

InitPoll == Startup(Env(<<>>, <<>>, <<>>))

PollInvoke ==
    /\ inv = <<>>
    /\ \E name \in DatasetTools, progress \in BOOLEAN : tool_fn(name, NoData, SessionA, progress)

PollTrigger ==
    \E i \in DOMAIN inv, a \in TriggerAnswers \cup PollErrors : TriggerResponse(i, a)

PollProgress ==
    \E i \in DOMAIN inv, ok \in BOOLEAN :
        /\ ok \/ inv[i].report_errors < MaxProgressFails
        /\ ProgressSettles(i, ok)

PollSnapshot ==
    \E i \in DOMAIN inv, a \in {RunningAnswer} \cup FinalAnswers \cup PollErrors :
        SnapshotResponse(i, a)

NextPoll == PollInvoke \/ PollTrigger \/ PollProgress \/ PollSnapshot \/ Timer

SpecPoll == InitPoll /\ [][NextPoll]_vars

\* SpecPollLive: SpecPoll where every upstream call, every progress
\* notification and every one-second wait that was started comes back.
SpecPollLive ==
    /\ InitPoll
    /\ [][NextPoll]_vars
    /\ WF_vars(PollTrigger)
    /\ WF_vars(PollProgress)
    /\ WF_vars(PollSnapshot)
    /\ WF_vars(Timer)

(***************************************************************************)
(* SpecAuth: authenticate calls for requests with and without a Bearer     *)
(* header and a URL token, well-formed and not, under every combination of *)
(* configured default zones, against every answer of the zone endpoints.   *)
(***************************************************************************)
Hdr_none == <<>>
Hdr_Bearer_ab == <<"B", "e", "a", "r", "e", "r", " ", "a", "b">>
Hdr_Bearer_a_b == <<"B", "e", "a", "r", "e", "r", " ", "a", " ", "b">>
Hdr_Bearer_empty == <<"B", "e", "a", "r", "e", "r", " ">>
Hdr_Basic_ab == <<"B", "a", "s", "i", "c", " ", "a", "b">>

Url_plain == <<"/", "m", "c", "p">>
Url_token_cd == <<"/", "m", "c", "p", "?", "t", "o", "k", "e", "n", "=", "c", "d">>
Url_token_c_semicolon_d == <<"/", "m", "c", "p", "?", "t", "o", "k", "e", "n", "=", "c", ";", "d">>
Url_token_semicolon_cd == <<"/", "m", "c", "p", "?", "t", "o", "k", "e", "n", "=", ";", "c", "d">>
Url_token_zones == <<"/", "m", "c", "p", "?", "t", "o", "k", "e", "n", "=", "c", "d", "&", "u", "n", "l", "o", "c", "k", "e", "r", "=", "u", "1", "&", "b", "r", "o", "w", "s", "e", "r", "=", "b", "1">>

Url_token_browser == <<"/", "m", "c", "p", "?", "t", "o", "k", "e", "n", "=", "c", "d", "&", "b", "r", "o", "w", "s", "e", "r", "=", "b", "1">>

Headers == {Hdr_none, Hdr_Bearer_ab, Hdr_Bearer_a_b, Hdr_Bearer_empty, Hdr_Basic_ab}

Urls ==
    {Url_plain,
     Url_token_cd,
     Url_token_c_semicolon_d,
     Url_token_semicolon_cd,
     Url_token_zones,
     Url_token_browser}

Requests == [authorization : Headers, url : Urls]

DefaultZones == {<<>>, <<"z", "0">>}

\* zones.some(...) throws inside the try when response.data is not a list
MalformedListing == PlainError("zones.some is not a function", <<>>)

ZoneErrors ==
    {TransportError, AxiosError([status |-> 401, data |-> TextBody]), MalformedListing}

ZoneAnswers == {Data("zone_present"), Data("zone_missing")} \cup ZoneErrors

InitAuth ==
    \E unlocker \in DefaultZones, browser \in DefaultZones :
        Startup(Env(<<>>, unlocker, browser))

Authenticate ==
    /\ Len(conn) < MaxConns
    /\ \E request \in Requests : authenticate(request)

ZoneList == \E c \in DOMAIN conn, a \in ZoneAnswers : ZonesListed(c, a)

ZoneCreate ==
    \E c \in DOMAIN conn, a \in {Data("created")} \cup (ZoneErrors \ {MalformedListing}) :
        ZoneCreated(c, a)

NextAuth == Authenticate \/ ZoneList \/ ZoneCreate

SpecAuth == InitAuth /\ [][NextAuth]_vars

(***************************************************************************)
(* SpecStats: a sequence of invocations of two single-request tools, with  *)
(* and without a session, their requests answered or failing in any order, *)
(* with no limit or a limit of three calls configured.                      *)
(***************************************************************************)
StatRateLimits == {<<>>, <<"3", "/", "1", "s">>}

InitStats == \E r \in StatRateLimits : Startup(Env(r, <<>>, <<>>))

StatCall ==
    /\ Len(inv) < MaxStatCalls
    /\ \E name \in SingleCallTools, session \in ToolSessions :
           tool_fn(name, NoData, session, FALSE)

StatAnswer ==
    \E i \in DOMAIN inv, a \in RequestAnswers \cup {TransportError} :
        RequestResponse(i, a)

NextStats == StatCall \/ StatAnswer

SpecStats == InitStats /\ [][NextStats]_vars

(***************************************************************************)
(* SpecBrowser: invocations of a browser tool in contexts without a        *)
(* session, with a session that carries no browser zone and with a full    *)
(* session, whether or not a default browser zone is configured.           *)
(***************************************************************************)
SessionNoBrowser ==
    [apiToken |-> <<"t", "k", "A">>,
     unlockerZone |-> Str_mcp_unlocker,
     browserZone |-> <<>>]

BrowserSessions == {NoSession, SessionNoBrowser, SessionA}

InitBrowser == \E browser \in DefaultZones : Startup(Env(<<>>, <<>>, browser))

BrowserInvoke ==
    /\ Len(inv) < MaxBrowserCalls
    /\ \E name \in BrowserTools, session \in BrowserSessions :
           browser_execute(name, session)

NextBrowser == BrowserInvoke \/ BrowserAnswer

SpecBrowser == InitBrowser /\ [][NextBrowser]_vars

(***************************************************************************)
(* SpecSearch: invocations of search_engine for every engine, with queries *)
(* that need encoding and cursors that are absent, numeric and not.        *)
(***************************************************************************)
Engines == {"google", "bing", "yandex"}

Queries ==
    {<<"c", "a", "t">>,
     <<"a", " ", "b">>,
     <<"a", "&", "b", "=", "1">>}

Cursors ==
    {<<>>,
     <<"0">>,
     <<"2">>,
     <<"1", "2">>,
     <<"-", "1">>,
     <<"a", "b", "c">>,
     <<"2", "x">>,
     <<" ", "3">>,
     <<"0", "x", "1", "0">>,
     <<"1", ".", "5">>}

SearchData == [engine : Engines, query : Queries, cursor : Cursors]

InitSearch == \E unlocker \in DefaultZones : Startup(Env(<<>>, unlocker, <<>>))

SearchCall ==
    /\ Len(inv) < MaxSearchCalls
    /\ \E data \in SearchData : tool_fn("search_engine", data, SessionA, FALSE)

SearchAnswer ==
    \E i \in DOMAIN inv, a \in RequestAnswers \cup {TransportError} :
        RequestResponse(i, a)

NextSearch == SearchCall \/ SearchAnswer

SpecSearch == InitSearch /\ [][NextSearch]_vars

(***************************************************************************)
(* SpecStartup: the process started with any RATE_LIMIT string, of the     *)
(* expected form or not; where it starts, tools are invoked as time passes. *)
(***************************************************************************)
StartupRateLimits ==
    {<<"2", "/", "1", "s">>,
     <<"1", "0", "/", "1", "m">>,
     <<"1", "/", "2", "h">>,
     <<"0", "7", "/", "0", "3", "s">>,
     <<"0", "/", "1", "s">>,
     <<"1", "/", "0", "s">>,
     <<"a", "b", "c">>,
     <<"5">>,
     <<"5", "/", "1">>,
     <<"5", "/", "1", "d">>,
     <<"/", "1", "s">>,
     <<"5", "/", "s">>,
     <<"-", "1", "/", "1", "s">>,
     <<" ", "5", "/", "1", "s">>,
     <<"5", "/", "1", "s", " ">>,
     <<"1", ".", "5", "/", "1", "s">>,
     <<"5", "/", "1", "/", "1", "s">>,
     <<"5", "/", "1", "s", "s">>}

InitStartup == \E r \in StartupRateLimits : Startup(Env(r, <<>>, <<>>))

StartupCall ==
    /\ Len(inv) < MaxStartupCalls
    /\ \E name \in StatsTools : tool_fn(name, NoData, SessionA, FALSE)

NextStartup == StartupCall \/ Clock

SpecStartup == InitStartup /\ [][NextStartup]_vars

(***************************************************************************)
(* SpecGate: requests are authenticated, and dataset tools are invoked     *)
(* with the sessions authenticate returned, under a limit of one call per  *)
(* second while the clock stands still.                                    *)
(***************************************************************************)
GateRequests ==
    {[authorization |-> Hdr_Bearer_ab, url |-> Url_plain],
     [authorization |-> Hdr_Bearer_a_b, url |-> Url_token_cd],
     [authorization |-> Hdr_Basic_ab, url |-> Url_plain]}

InitGate == \E r \in ToolRateLimits : Startup(Env(r, <<>>, <<>>))

GateAuthenticate ==
    /\ Len(conn) < MaxGateConns
    /\ \E request \in GateRequests : authenticate(request)

GateZones ==
    \E c \in DOMAIN conn, a \in {Data("zone_present"), TransportError} :
        ZonesListed(c, a)

GateCall ==
    /\ Len(inv) < MaxGateCalls
    /\ \E c \in DOMAIN conn, name \in DatasetTools :
           /\ conn[c].outcome.kind = "session"
           /\ tool_fn(name, NoData, conn[c].outcome.session, FALSE)

NextGate == GateAuthenticate \/ GateZones \/ GateCall \/ Trigger \/ Poll \/ Timer

SpecGate == InitGate /\ [][NextGate]_vars

(***************************************************************************)
(* SpecSessions: tools invoked from two sessions with different tokens,    *)
(* from a context without a session and from one whose session has no      *)
(* token; the invocations are in flight together and their requests are    *)
(* answered in any order.                                                  *)
(***************************************************************************)
SessionB ==
    [apiToken |-> <<"t", "k", "B">>,
     unlockerZone |-> <<"u", "B">>,
     browserZone |-> <<"b", "B">>]

SessionNoToken ==
    [apiToken |-> <<>>,
     unlockerZone |-> Str_mcp_unlocker,
     browserZone |-> Str_mcp_browser]

Sessions == {NoSession, SessionNoToken, SessionA, SessionB}

SessionTools == DatasetTools \cup StatsTools \cup {"search_engine"}

InitSessions == \E r \in ToolRateLimits : Startup(Env(r, <<>>, <<>>))

SessionCall ==
    /\ Len(inv) < MaxSessionCalls
    /\ \E name \in SessionTools, session \in Sessions :
           tool_fn(name, NoData, session, FALSE)

NextSessions == SessionCall \/ StatAnswer \/ Trigger \/ Poll \/ Timer

SpecSessions == InitSessions /\ [][NextSessions]_vars

(***************************************************************************)
(* Properties of the rate limiter, checked under Spec.                     *)
(***************************************************************************)
Wrapped(i) == inv[i].tool \in WrappedTools

Admitted(i) == inv[i].rl = "passed"

Rejected(i) == inv[i].rl = "rejected"

\* the admitted invocations issued in the window (lo, hi]
AdmittedIn(lo, hi) ==
    {i \in DOMAIN inv : Admitted(i) /\ lo < inv[i].at /\ inv[i].at <= hi}

\* the recorded timestamps that lie in the window (lo, hi]
RecordedIn(lo, hi) ==
    {k \in DOMAIN debug_stats.call_timestamps :
        lo < debug_stats.call_timestamps[k] /\ debug_stats.call_timestamps[k] <= hi}

Earliest(timestamps) ==
    CHOOSE t \in {timestamps[k] : k \in DOMAIN timestamps} :
        \A k \in DOMAIN timestamps : t <= timestamps[k]

\* the instants at which a window can end with an invocation in it
Instants == {inv[i].at : i \in DOMAIN inv} \cup {now}

\* C1: with a limit N per window W configured, every window (t - W, t] holds
\* at most N admitted invocations (it is enough to look at the windows that
\* end at an instant of issue: any other window's admitted invocations lie
\* in the window ending at the last of them), and an invocation issued when
\* N earlier invocations were admitted in the window ending at its instant is
\* rejected with 'Rate limit exceeded' and the configured display string.
C1_RateLimit ==
    rate_limit_config # Null =>
        /\ \A t \in Instants :
               Cardinality(AdmittedIn(t - rate_limit_config.window, t))
                   <= rate_limit_config.limit
        /\ \A j \in DOMAIN inv :
               (/\ Wrapped(j)
                /\ Cardinality({i \in 1..(j - 1) :
                        i \in AdmittedIn(inv[j].at - rate_limit_config.window, inv[j].at)})
                       >= rate_limit_config.limit)
               => /\ Rejected(j)
                  /\ inv[j].result = PlainError("Rate limit exceeded",
                                                rate_limit_config.display)

C1_Witness ==
    /\ rate_limit_config # Null
    /\ rate_limit_config.limit = 2
    /\ \E j \in DOMAIN inv :
           /\ Rejected(j)
           /\ Cardinality({i \in 1..(j - 1) :
                  i \in AdmittedIn(inv[j].at - rate_limit_config.window, inv[j].at)}) = 2

\* C2: whatever invocations are suspended at an upstream call or at a polling
\* sleep, the timestamps recorded within the current window are exactly one
\* per invocation admitted in it (no two admissions share a slot) and never
\* more than the limit.
C2_AtomicCheck ==
    rate_limit_config # Null =>
        LET lo == now - rate_limit_config.window
        IN  /\ Cardinality(RecordedIn(lo, now)) <= rate_limit_config.limit
            /\ Cardinality(RecordedIn(lo, now)) = Cardinality(AdmittedIn(lo, now))

C2_Witness ==
    /\ rate_limit_config # Null
    /\ Len(debug_stats.call_timestamps) = rate_limit_config.limit
    /\ \E i, j, k \in DOMAIN inv :
           /\ Admitted(i) /\ inv[i].pc = "sleep"
           /\ Admitted(j) /\ inv[j].pc = "trigger"
           /\ Rejected(k)

\* C4: with a limit N >= 1, an invocation issued at least W after the
\* earliest retained timestamp is admitted, and every timestamp that old is
\* pruned by that check.
C4_NeverLockedOut ==
    [][(/\ Len(inv') = Len(inv) + 1
        /\ inv'[Len(inv')].tool \in WrappedTools
        /\ rate_limit_config # Null
        /\ rate_limit_config.limit >= 1
        /\ debug_stats.call_timestamps # <<>>
        /\ now - Earliest(debug_stats.call_timestamps) >= rate_limit_config.window)
       => (/\ inv'[Len(inv')].rl = "passed"
           /\ debug_stats'.call_timestamps # <<>>
           /\ debug_stats'.call_timestamps[Len(debug_stats'.call_timestamps)] = now
           /\ \A k \in DOMAIN debug_stats'.call_timestamps :
                  debug_stats'.call_timestamps[k] > now - rate_limit_config.window)]_vars

C4_Witness ==
    /\ rate_limit_config # Null
    /\ rate_limit_config.limit >= 1
    /\ \E i, j, k \in DOMAIN inv :
           /\ i < j /\ j < k
           /\ Admitted(i) /\ Rejected(j) /\ Admitted(k)
           /\ inv[k].at - inv[i].at >= rate_limit_config.window
           /\ debug_stats.call_timestamps = <<inv[k].at>>

\* C5: with no rate limit configured every invocation passes the check and
\* no timestamp is recorded.
C5_Disabled ==
    rate_limit_config = Null =>
        /\ debug_stats.call_timestamps = <<>>
        /\ \A i \in DOMAIN inv : Wrapped(i) => Admitted(i)

C5_Witness ==
    /\ rate_limit_config = Null
    /\ Len(inv) >= 3
    /\ \A i \in DOMAIN inv : Wrapped(i) /\ Admitted(i) /\ inv[i].at = 0
    /\ now > 0

(***************************************************************************)
(* Properties of the wrapper, checked under SpecTools.                     *)
(***************************************************************************)
\* C3: for every registered tool, the tool's underlying logic runs only for
\* an invocation that passed the rate-limit check and for which the usage
\* counters were incremented.
C3_WrapperOnEveryTool ==
    \A i \in DOMAIN inv : inv[i].ran => Admitted(i) /\ inv[i].counted

(***************************************************************************)
(* Properties of the snapshot poller, checked under SpecPoll.              *)
(***************************************************************************)
TimeoutError == PlainError("Timeout waiting for data", max_attempts)

NoSnapshotError == PlainError("No snapshot ID returned from request", <<>>)

Done(i) == inv[i].pc = "done"

\* the 'running' answers invocation i received, when no status query failed
RunningAnswers(i) == inv[i].attempts - inv[i].report_errors

\* C6: an invocation whose trigger succeeded and whose status queries were
\* answered 'running' K times (0 <= K <= 599) and then by a final payload,
\* with no error answer, returns that payload after exactly K+1 status
\* queries and, when the caller supports progress, K+1 progress reports.
C6_PollsAndReports ==
    \A i \in DOMAIN inv :
        (/\ Done(i)
         /\ inv[i].snapshot
         /\ ~inv[i].poll_errors
         /\ RunningAnswers(i) < max_attempts)
        => /\ inv[i].result.kind = "ok"
           /\ inv[i].result.value = inv[i].answer.data
           /\ inv[i].queries = RunningAnswers(i) + 1
           /\ inv[i].reportProgress => inv[i].reports = RunningAnswers(i) + 1

\* C6 holds of every invocation none of whose progress notifications failed.
C6_WhenReportsSucceed ==
    \A i \in DOMAIN inv :
        (/\ Done(i)
         /\ inv[i].snapshot
         /\ ~inv[i].poll_errors
         /\ inv[i].report_errors = 0
         /\ inv[i].attempts < max_attempts)
        => /\ inv[i].result = Ok(inv[i].answer.data)
           /\ inv[i].queries = inv[i].attempts + 1
           /\ inv[i].reportProgress => inv[i].reports = inv[i].attempts + 1

\* C7: the attempt counter of an invocation never decreases and never
\* exceeds 600, no status query is issued once it is 600, and an invocation
\* that ends after a successful trigger without a final answer ends with the
\* timeout error, at exactly 600 attempts and at most 600 status queries.
C7_BoundedAttempts ==
    /\ [](\A i \in DOMAIN inv :
            /\ inv[i].attempts <= max_attempts
            /\ inv[i].queries <= max_attempts
            /\ inv[i].attempts = max_attempts => inv[i].pc \in {"sleep", "done"}
            /\ (Done(i) /\ inv[i].snapshot /\ inv[i].result.kind # "ok")
               => inv[i].result = TimeoutError /\ inv[i].attempts = max_attempts)
    /\ [][\A i \in DOMAIN inv : inv'[i].attempts >= inv[i].attempts]_vars

C7_Witness ==
    \E i \in DOMAIN inv :
        /\ Done(i)
        /\ inv[i].result = TimeoutError
        /\ inv[i].queries = max_attempts
        /\ ~inv[i].poll_errors

\* C8: an error answer to a status query is not propagated: it adds exactly
\* one to the attempt counter and leaves the invocation sleeping before its
\* next attempt, which follows while fewer than 600 attempts were made; an
\* invocation whose trigger succeeded ends with a final payload or with the
\* timeout error only.
C8_PollErrorsAbsorbed ==
    /\ [][\A i \in DOMAIN inv :
            /\ (inv[i].pc = "query" /\ inv'[i] # inv[i] /\ IsError(inv'[i].answer))
               => /\ inv'[i].pc = "sleep"
                  /\ inv'[i].result = Pending
                  /\ inv'[i].attempts = inv[i].attempts + 1
            /\ (inv[i].pc = "sleep" /\ inv'[i] # inv[i]
                    /\ inv[i].attempts < max_attempts)
               => inv'[i].pc \in {"progress", "query"}]_vars
    /\ [](\A i \in DOMAIN inv :
            (Done(i) /\ inv[i].snapshot)
            => \/ inv[i].result = TimeoutError
               \/ inv[i].result.kind = "ok" /\ inv[i].answer \in FinalAnswers)

C8_Witness ==
    \E i \in DOMAIN inv :
        /\ Done(i)
        /\ inv[i].poll_errors
        /\ inv[i].result = Ok("ready")
        /\ inv[i].attempts = 4
        /\ inv[i].queries = 5

\* C9: a dataset invocation issues at most one trigger request; when the
\* trigger answer carries no snapshot id the invocation ends with the 'No
\* snapshot ID' error, when the trigger request fails it ends with an error,
\* and in both cases no status query, progress report or attempt is made.
C9_TriggerFatal ==
    \A i \in DOMAIN inv :
        /\ inv[i].triggers <= 1
        /\ (inv[i].triggers = 1 /\ inv[i].pc # "trigger" /\ ~inv[i].snapshot)
           => /\ Done(i)
              /\ inv[i].result.kind = "error"
              /\ ~IsError(inv[i].answer) => inv[i].result = NoSnapshotError
              /\ inv[i].queries = 0
              /\ inv[i].reports = 0
              /\ inv[i].attempts = 0

C9_Witness ==
    \E i \in DOMAIN inv :
        /\ Done(i)
        /\ inv[i].answer = Data("no_snapshot")
        /\ inv[i].result = NoSnapshotError
        /\ inv[i].queries = 0

(***************************************************************************)
(* Properties of authenticate, checked under SpecAuth.                     *)
(***************************************************************************)
\* the value of the URL's query parameter token: what follows "token=" at
\* the start of a parameter, up to the next "&" or the end of the URL
RECURSIVE ParamValue(_, _)
ParamValue(url, p) ==
    IF p <= Len(url) /\ url[p] # "&" THEN <<url[p]>> \o ParamValue(url, p + 1) ELSE <<>>

UrlToken(url) ==
    LET starts == {p \in 2..Len(url) :
                      /\ url[p - 1] \in {"?", "&"}
                      /\ p + Len(Str_token) - 1 <= Len(url)
                      /\ SubSeq(url, p, p + Len(Str_token) - 1) = Str_token}
    IN  IF starts = {} THEN <<>>
        ELSE ParamValue(url, (CHOOSE p \in starts : \A q \in starts : p <= q)
                                 + Len(Str_token))

\* the token the caller supplied: the Bearer header's, else the URL's
SuppliedToken(request) ==
    IF StartsWith(request.authorization, Str_Bearer)
    THEN SubSeq(request.authorization, 8, Len(request.authorization))
    ELSE UrlToken(request.url)

\* C10: a request is authenticated only if the whole token it supplied
\* matches [a-zA-Z0-9_-]+; a supplied token with any other character gets
\* the invalid-format 401 and no session, an absent one the missing-token 401.
C10_WholeTokenValidated ==
    \A c \in DOMAIN conn :
        LET supplied == SuppliedToken(conn[c].request)
        IN  /\ conn[c].outcome.kind = "session"
               => /\ ValidTokenFormat(supplied)
                  /\ conn[c].outcome.session.apiToken = supplied
            /\ (supplied # <<>> /\ ~ValidTokenFormat(supplied))
               => /\ conn[c].outcome = Unauthorized("Invalid API Token Format")
                  /\ conn[c].upstream = <<>>
            /\ supplied = <<>>
               => conn[c].outcome = Unauthorized("Unauthorized - Missing API Token")

(***************************************************************************)
(* Properties of authenticate with respect to the header, the zone check   *)
(* and the zones, checked under SpecAuth.                                   *)
(***************************************************************************)
HasBearer(request) == StartsWith(request.authorization, Str_Bearer)

HeaderToken(request) == SubSeq(request.authorization, 8, Len(request.authorization))

\* C11: for a request with a 'Bearer ' header the credential validated and
\* stored is the header's token, whatever token the URL carries: it is
\* authenticated exactly when the header's token is well formed, and then
\* the session holds the header's token; a credential taken from the URL
\* that is not the header's token is used only without a Bearer header.
C11_HeaderPrecedence ==
    \A c \in DOMAIN conn :
        LET request == conn[c].request
            url_token == extractUrlParams(request).token
        IN  /\ HasBearer(request)
               => /\ conn[c].clientApiToken = HeaderToken(request)
                  /\ conn[c].outcome.kind = "session"
                     => conn[c].outcome.session.apiToken = HeaderToken(request)
                  /\ conn[c].outcome.kind = "401"
                     <=> ~ValidTokenFormat(HeaderToken(request))
            /\ (url_token # <<>> /\ conn[c].clientApiToken = url_token
                    /\ url_token # HeaderToken(request))
               => ~HasBearer(request)
            /\ (~HasBearer(request) /\ conn[c].outcome.kind = "session")
               => conn[c].outcome.session.apiToken = url_token

C11_Witness ==
    \E c \in DOMAIN conn :
        /\ conn[c].request = [authorization |-> Hdr_Bearer_ab, url |-> Url_token_cd]
        /\ conn[c].outcome.kind = "session"
        /\ conn[c].outcome.session.apiToken = <<"a", "b">>

\* the session a request is to get, from the request and the environment alone
SessionOf(request) ==
    LET urlParams == extractUrlParams(request)
    IN  [apiToken |-> ClientApiToken(request),
         unlockerZone |-> OrElse(urlParams.unlocker,
                             OrElse(env.WEB_UNLOCKER_ZONE, Str_mcp_unlocker)),
         browserZone |-> OrElse(urlParams.browser,
                            OrElse(env.BROWSER_ZONE, Str_mcp_browser))]

CreationRequests(c) ==
    {k \in DOMAIN conn[c].upstream : conn[c].upstream[k].endpoint = "zone"}

\* C12: a request with a well-formed credential is never refused, and once
\* authenticate has returned its outcome is the session determined by the
\* request and the environment, whatever the zone listing and the zone
\* creation answered; a zone creation request is issued only after a zone
\* listing that succeeded and lacked the selected unlocker zone, and it is
\* for that zone.
C12_ZoneCheckBestEffort ==
    \A c \in DOMAIN conn :
        /\ ValidTokenFormat(ClientApiToken(conn[c].request))
           => /\ conn[c].outcome.kind # "401"
              /\ conn[c].pc = "done"
                 => conn[c].outcome = Authenticated(SessionOf(conn[c].request))
        /\ \A k \in CreationRequests(c) :
              /\ conn[c].listing = Data("zone_missing")
              /\ conn[c].upstream[k].zone = SessionOf(conn[c].request).unlockerZone

C12_Witness ==
    \E c \in DOMAIN conn :
        /\ conn[c].pc = "done"
        /\ conn[c].outcome.kind = "session"
        /\ CreationRequests(c) # {}
        /\ IsError(conn[c].creation)

(***************************************************************************)
(* Properties of the usage counters, checked under SpecStats.              *)
(***************************************************************************)
ToolCount(name) ==
    IF name \in DOMAIN debug_stats.tool_calls THEN debug_stats.tool_calls[name] ELSE 0

RECURSIVE SumOfCounters(_, _)
SumOfCounters(tool_calls, names) ==
    IF names = {} THEN 0
    ELSE LET n == CHOOSE x \in names : TRUE
         IN  tool_calls[n] + SumOfCounters(tool_calls, names \ {n})

PassedInvocations(name) ==
    {i \in DOMAIN inv : Wrapped(i) /\ inv[i].tool = name /\ Admitted(i)}

\* C13: at every moment the counter of each tool name is the number of
\* invocations of that tool that passed the rate-limit check, whether they
\* are still running, succeeded or failed (rejected ones are not counted),
\* and the session total is the sum of the per-tool counters.
C13_Counters ==
    /\ DOMAIN debug_stats.tool_calls \subseteq WrappedTools
    /\ \A name \in WrappedTools :
          ToolCount(name) = Cardinality(PassedInvocations(name))
    /\ debug_stats.session_calls =
          SumOfCounters(debug_stats.tool_calls, DOMAIN debug_stats.tool_calls)

C13_Witness ==
    /\ ToolCount("scrape_as_html") = 3
    /\ ToolCount("search_engine") = 1
    /\ debug_stats.session_calls = 4
    /\ \E i, j \in DOMAIN inv :
          /\ inv[i].result.kind = "error"
          /\ inv[j].result.kind = "ok"

(***************************************************************************)
(* Properties of the wrapper's error handling and logging, checked under   *)
(* SpecTools.                                                               *)
(***************************************************************************)
\* the tool logic of invocation i failed with the upstream error it received
\* (the errors of status queries are absorbed by the polling loop instead)
LogicFailedWithAnswer(i) ==
    /\ Wrapped(i)
    /\ Done(i)
    /\ inv[i].ran
    /\ ~inv[i].snapshot
    /\ IsError(inv[i].answer)

NormalizedError(response) == PlainError("HTTP", <<response.status, response.data>>)

\* C14: when the logic of a wrapped tool fails with an error that carries an
\* HTTP response, the wrapper raises the normalized error made of the status
\* and the body, whether the body is text, empty or a parsed object; an
\* error without a response is raised unchanged.
C14_ErrorsNormalized ==
    \A i \in DOMAIN inv :
        LogicFailedWithAnswer(i)
        => IF inv[i].answer.response # NoResponse
           THEN inv[i].result = NormalizedError(inv[i].answer.response)
           ELSE inv[i].result = inv[i].answer

\* the part of C14 the code keeps: bodies that are non-empty text, and errors
\* without a response
C14_WhenBodyIsText ==
    \A i \in DOMAIN inv :
        LogicFailedWithAnswer(i)
        => IF inv[i].answer.response = NoResponse
           THEN inv[i].result = inv[i].answer
           ELSE IF HasLength(inv[i].answer.response.data)
           THEN inv[i].result = NormalizedError(inv[i].answer.response)
           ELSE inv[i].result = inv[i].answer

\* C15: every invocation of a wrapped tool has logged its duration exactly
\* once when it returns or raises, on every exit path (success, failure of
\* the logic, rate-limit rejection, no session credential), and not before.
C15_DurationLoggedOnce ==
    \A i \in DOMAIN inv :
        Wrapped(i) => inv[i].dur_logs = (IF Done(i) THEN 1 ELSE 0)

\* the part of C15 the code keeps: the exits of the tool logic
C15_WhenLogicEntered ==
    \A i \in DOMAIN inv :
        Wrapped(i) => inv[i].dur_logs = (IF Done(i) /\ inv[i].ran THEN 1 ELSE 0)

(***************************************************************************)
(* Property of the browser tools' guard, checked under SpecBrowser.        *)
(***************************************************************************)
LacksBrowserZone(session) ==
    session = NoSession \/ session.browserZone = <<>>

\* C16: an invocation of a browser tool in a context whose session is absent
\* or has no browser zone is over as soon as it is made, with the 'Browser
\* tools require a browser zone' error; the tool's original handler, the
\* only code that makes upstream requests for it, is never entered.
C16_BrowserGuard ==
    \A i \in DOMAIN inv :
        (inv[i].tool \in BrowserTools /\ LacksBrowserZone(inv[i].session))
        => /\ Done(i)
           /\ inv[i].result = PlainError("Browser tools require a browser zone", <<>>)
           /\ ~inv[i].ran
           /\ inv[i].sent = {}

C16_Witness ==
    \E i, j, k \in DOMAIN inv :
        /\ inv[i].tool \in BrowserTools /\ inv[i].session = NoSession
        /\ inv[j].tool \in BrowserTools /\ inv[j].session = SessionNoBrowser
        /\ inv[i].result.kind = "error" /\ inv[j].result.kind = "error"
        /\ inv[k].tool \in BrowserTools /\ inv[k].ran
        /\ env.BROWSER_ZONE # <<>>

(***************************************************************************)
(* Properties of search_url, checked under SpecSearch.                     *)
(***************************************************************************)
Searches == {i \in DOMAIN inv : inv[i].tool = "search_engine" /\ inv[i].url # NoUrl}

\* the parameter name and the offset for a page number, per engine
OffsetParam(engine) ==
    IF engine = "google" THEN "start" ELSE IF engine = "bing" THEN "first" ELSE "p"

OffsetOf(engine, page_number) ==
    IF engine = "google" THEN page_number * 10
    ELSE IF engine = "bing" THEN page_number * 10 + 1
    ELSE page_number

\* C17: the URL search_engine requests is determined by (engine, query,
\* cursor): it carries the URL-encoded query and, with page_number the
\* integer parsed from the cursor or 0 without a cursor, start =
\* page_number*10 for google, first = page_number*10 + 1 for bing and
\* p = page_number for yandex; for every cursor the offset is an integer
\* and is not negative.
C17_SearchUrl ==
    /\ \A i \in Searches :
          LET d == inv[i].data
              u == inv[i].url
              page_number == IF d.cursor = <<>> THEN Number(0)
                             ELSE parseInt_string(d.cursor)
          IN  /\ u.q = encodeURIComponent(d.query)
              /\ u.param = OffsetParam(d.engine)
              /\ ~u.value.nan
              /\ u.value.value >= 0
              /\ u.value.value = OffsetOf(d.engine, page_number.value)
    /\ \A i, j \in Searches : inv[i].data = inv[j].data => inv[i].url = inv[j].url

IsDigits(s) == s # <<>> /\ \A k \in DOMAIN s : IsDigit(s[k])

\* the part of C17 the code keeps: cursors that are absent or all digits
C17_WhenCursorIsDigits ==
    \A i \in Searches :
        LET d == inv[i].data
            u == inv[i].url
        IN  (d.cursor = <<>> \/ IsDigits(d.cursor))
            => /\ u.q = encodeURIComponent(d.query)
               /\ u.param = OffsetParam(d.engine)
               /\ ~u.value.nan
               /\ u.value.value >= 0
               /\ u.value.value = OffsetOf(d.engine, parseInt(d.cursor))

(***************************************************************************)
(* Property of the startup configuration, checked under SpecStartup.       *)
(***************************************************************************)
\* the positions of a "/" that split s as <count>/<duration><unit>
FormSplits(s) ==
    {k \in DOMAIN s :
        /\ s[k] = "/"
        /\ IsDigits(SubSeq(s, 1, k - 1))
        /\ IsDigits(SubSeq(s, k + 1, Len(s) - 1))
        /\ s[Len(s)] \in {"s", "m", "h"}}

OfTheForm(s) == FormSplits(s) # {}

CountOf(s) == parseInt(SubSeq(s, 1, (CHOOSE k \in FormSplits(s) : TRUE) - 1))

DurationOf(s) ==
    parseInt(SubSeq(s, (CHOOSE k \in FormSplits(s) : TRUE) + 1, Len(s) - 1))

UnitMs(unit) == IF unit = "s" THEN 1000 ELSE IF unit = "m" THEN 60000 ELSE 3600000

\* C18: with a non-empty rate-limit string the process does not start when
\* the string is not of the form <count>/<duration><unit>, unit s, m or h,
\* and otherwise runs with a configuration whose limit and window are both
\* positive, limit = count and window = duration * 1000, 60000 or 3600000.
C18_StartupConfig ==
    LET spec_string == env.RATE_LIMIT
    IN  spec_string # <<>>
        => IF OfTheForm(spec_string)
           THEN /\ started
                /\ rate_limit_config # Null
                /\ rate_limit_config.limit > 0
                /\ rate_limit_config.window > 0
                /\ rate_limit_config.limit = CountOf(spec_string)
                /\ rate_limit_config.window =
                      DurationOf(spec_string) * UnitMs(spec_string[Len(spec_string)])
           ELSE ~started

\* the part of C18 the code keeps: limit and window are not negative
C18_NotNegative ==
    LET spec_string == env.RATE_LIMIT
    IN  spec_string # <<>>
        => IF OfTheForm(spec_string)
           THEN /\ started
                /\ rate_limit_config # Null
                /\ rate_limit_config.limit >= 0
                /\ rate_limit_config.window >= 0
                /\ rate_limit_config.limit = CountOf(spec_string)
                /\ rate_limit_config.window =
                      DurationOf(spec_string) * UnitMs(spec_string[Len(spec_string)])
           ELSE ~started

\* with a count of zero every invocation is rejected
C18_ZeroLimitRejectsAll ==
    (started /\ rate_limit_config # Null /\ rate_limit_config.limit = 0)
    => \A i \in DOMAIN inv : Rejected(i)

(***************************************************************************)
(* Property of the two gates, checked under SpecGate.                      *)
(***************************************************************************)
\* C19: a request that authenticate refused has made no upstream request at
\* all, the zone listing included, and an invocation the rate limiter
\* rejected is over with no upstream request made and the tool logic never
\* entered; requests are made only for the others.
C19_FailuresShortCircuit ==
    /\ \A c \in DOMAIN conn :
          conn[c].outcome.kind = "401"
          => conn[c].upstream = <<>> /\ conn[c].pc = "done"
    /\ \A i \in DOMAIN inv :
          Rejected(i)
          => /\ Done(i)
             /\ ~inv[i].ran
             /\ inv[i].sent = {}
             /\ inv[i].triggers = 0
             /\ inv[i].queries = 0

C19_Witness ==
    /\ \E c, d \in DOMAIN conn :
          /\ conn[c].outcome = Unauthorized("Invalid API Token Format")
          /\ conn[d].outcome.kind = "session"
          /\ conn[d].upstream # <<>>
    /\ \E i, j \in DOMAIN inv :
          /\ Rejected(i)
          /\ Admitted(j) /\ inv[j].queries > 0

(***************************************************************************)
(* Property of the zone resolution, checked under SpecAuth.                *)
(***************************************************************************)
\* the value of the query parameter key of url, <<>> when there is none
UrlParam(url, key) ==
    LET starts == {p \in 2..Len(url) :
                      /\ url[p - 1] \in {"?", "&"}
                      /\ p + Len(key) - 1 <= Len(url)
                      /\ SubSeq(url, p, p + Len(key) - 1) = key}
    IN  IF starts = {} THEN <<>>
        ELSE ParamValue(url, (CHOOSE p \in starts : \A q \in starts : p <= q)
                                 + Len(key))

Resolved(override, default, fallback) ==
    IF override # <<>> THEN override
    ELSE IF default # <<>> THEN default
    ELSE fallback

WithinWindow(timestamps, t, window) ==
    LET Newer(timestamp) == timestamp > t - window
    IN  SelectSeq(timestamps, Newer)

\* this step issues an invocation that the rate limiter rejects
RejectingStep ==
    /\ Len(inv') = Len(inv) + 1
    /\ inv'[Len(inv')].tool \in WrappedTools
    /\ inv'[Len(inv')].rl = "rejected"

\* C21: a step that rejects an invocation leaves the usage counters and the
\* session total as they were, records no timestamp (the timestamps after it
\* are those of before that are still within the window), touches no other
\* invocation, and hands the caller the limiter's own error; the rejected
\* invocation is over and nothing is done for it afterwards.
C21_RejectionFrame ==
    /\ [][RejectingStep
          => /\ debug_stats'.tool_calls = debug_stats.tool_calls
             /\ debug_stats'.session_calls = debug_stats.session_calls
             /\ debug_stats'.call_timestamps =
                   WithinWindow(debug_stats.call_timestamps, now,
                                rate_limit_config.window)
             /\ SubSeq(inv', 1, Len(inv)) = inv
             /\ inv'[Len(inv')].pc = "done"
             /\ inv'[Len(inv')].result =
                   PlainError("Rate limit exceeded", rate_limit_config.display)
             /\ UNCHANGED <<now, started, rate_limit_config, env, conn>>]_vars
    /\ [][\A i \in DOMAIN inv : Rejected(i) => inv'[i] = inv[i]]_vars

C21_Witness ==
    \E i, j, k \in DOMAIN inv :
        /\ i < j /\ j < k
        /\ Admitted(i) /\ Rejected(j) /\ Admitted(k)
        /\ inv[j].result.kind = "error"
        /\ debug_stats.session_calls = 2
        /\ ToolCount(inv[j].tool) < Cardinality({n \in DOMAIN inv : inv[n].tool = inv[j].tool})

Ordered(timestamps) ==
    \A j, k \in DOMAIN timestamps : j < k => timestamps[j] <= timestamps[k]

AllWithin(timestamps, t, window) ==
    \A k \in DOMAIN timestamps : timestamps[k] > t - window

\* C22: with a limit configured, in every state every stored timestamp is
\* newer than now minus the window length, and the timestamps are in
\* ascending order.
C22_AlwaysWithinWindow ==
    rate_limit_config # Null
    => /\ AllWithin(debug_stats.call_timestamps, now, rate_limit_config.window)
       /\ Ordered(debug_stats.call_timestamps)

\* this step runs check_rate_limit with a limit configured
CheckingStep ==
    /\ Len(inv') = Len(inv) + 1
    /\ inv'[Len(inv')].tool \in WrappedTools
    /\ rate_limit_config # Null

\* C22, amended: in every state the stored timestamps are in ascending
\* order, none is later than now and there are at most `limit` of them;
\* right after every check every stored timestamp is newer than the instant
\* of that check minus the window length.  (Between checks expired
\* timestamps stay stored until the next check prunes them.)
C22_WithinWindowAfterCheck ==
    /\ [](rate_limit_config # Null
          => /\ Ordered(debug_stats.call_timestamps)
             /\ \A k \in DOMAIN debug_stats.call_timestamps :
                   debug_stats.call_timestamps[k] <= now
             /\ Len(debug_stats.call_timestamps) <= rate_limit_config.limit)
    /\ [][CheckingStep
          => AllWithin(debug_stats'.call_timestamps, now,
                       rate_limit_config.window)]_vars

C22_Witness ==
    /\ rate_limit_config # Null
    /\ debug_stats.call_timestamps # <<>>
    /\ Len(debug_stats.call_timestamps) < debug_stats.session_calls
    /\ \E i \in DOMAIN inv : inv[i].at = now /\ now > 0
    /\ AllWithin(debug_stats.call_timestamps, now, rate_limit_config.window)

(***************************************************************************)
(* Properties of the polling loop, checked under SpecPoll.                 *)
(***************************************************************************)
\* the last answer invocation i received is a snapshot-status response
\* whose status is not 'running'
FinalResponse(i) ==
    /\ inv[i].snapshot
    /\ inv[i].queries > 0
    /\ inv[i].answer.kind = "data"
    /\ inv[i].answer \in FinalAnswers

\* C23: a snapshot-status response whose status is not 'running' (absent,
\* 'ready' or anything else, an error status included) ends the invocation
\* in the step that receives it, with the response body as its successful
\* result; no status query, progress report or wait follows it.
C23_FinalResponseReturned ==
    /\ [](\A i \in DOMAIN inv :
            FinalResponse(i)
            => Done(i) /\ inv[i].result = Ok(inv[i].answer.data))
    /\ [][\A i \in DOMAIN inv :
            (inv[i].pc = "query" /\ inv'[i].answer.kind = "data"
                /\ inv'[i].answer \in FinalAnswers)
            => /\ inv'[i].pc = "done"
               /\ inv'[i].queries = inv[i].queries
               /\ inv'[i].attempts = inv[i].attempts]_vars
    /\ [][\A i \in DOMAIN inv : Done(i) => inv'[i] = inv[i]]_vars

C23_Witness ==
    \E i \in DOMAIN inv :
        /\ FinalResponse(i)
        /\ inv[i].attempts = 2
        /\ inv[i].queries = 3
        /\ inv[i].result = Ok("failed")

\* the status queries that the upstream answers received so far account
\* for: one per attempt, and the one in flight or answered by a final payload
QueriesByAttempts(i) ==
    inv[i].attempts + (IF inv[i].pc = "query" \/ FinalResponse(i) THEN 1 ELSE 0)

\* C24: the status queries of a dataset invocation and its outcome are those
\* its upstream answers determine, whether or not the caller supports
\* progress notification and whether a notification succeeds or fails: every
\* attempt is a status query that was answered 'running' or by an error, and
\* the timeout error comes after max_attempts status queries, not fewer.
C24_ProgressAdvisory ==
    \A i \in DOMAIN inv :
        inv[i].snapshot
        => /\ inv[i].queries = QueriesByAttempts(i)
           /\ inv[i].result = TimeoutError => inv[i].queries = max_attempts

\* C24 holds of every invocation none of whose progress notifications
\* failed, with and without progress support.
C24_WhenReportsSucceed ==
    \A i \in DOMAIN inv :
        (inv[i].snapshot /\ inv[i].report_errors = 0)
        => /\ inv[i].queries = QueriesByAttempts(i)
           /\ inv[i].result = TimeoutError => inv[i].queries = max_attempts

(***************************************************************************)
(* Properties of sessions, checked under SpecSessions.                     *)
(***************************************************************************)
HasCredential(session) == session # NoSession /\ session.apiToken # <<>>

C26_PollTerminates ==
    /\ (inv # <<>>) ~> (inv # <<>> /\ \A i \in DOMAIN inv : Done(i))
    /\ [][\A i \in DOMAIN inv :
            (inv[i].pc \in {"progress", "query"} /\ inv'[i] # inv[i])
            => \/ inv'[i].pc = "done" /\ inv'[i].result.kind = "ok"
               \/ inv'[i].pc = "sleep" /\ inv'[i].attempts = inv[i].attempts + 1
               \/ /\ inv[i].pc = "progress" /\ inv'[i].pc = "query"
                  /\ inv'[i].attempts = inv[i].attempts]_vars
    /\ [](\A i \in DOMAIN inv :
            (Done(i) /\ inv[i].snapshot)
            => inv[i].result.kind = "ok" \/ inv[i].result = TimeoutError)

C26_Witness ==
    \E i \in DOMAIN inv :
        /\ Done(i)
        /\ inv[i].result = TimeoutError
        /\ inv[i].poll_errors
        /\ inv[i].report_errors > 0

(***************************************************************************)
(* Property of session_stats, checked under SpecSessions.                  *)
(***************************************************************************)
StatsReports ==
    {i \in DOMAIN inv : inv[i].tool \in StatsTools /\ inv[i].result.kind = "ok"}

\* the counted invocations of tool name up to invocation i, by the given
\* callers
CountedUpTo(i, name, callers) ==
    Cardinality({j \in 1..i : /\ inv[j].tool = name
                              /\ inv[j].counted
                              /\ inv[j].session \in callers})

ReportedCount(i, name) ==
    IF name \in DOMAIN inv[i].result.value THEN inv[i].result.value[name] ELSE 0

\* C27: what session_stats returns in a session is the usage of that
\* session: for every tool name, the number of invocations of it made in
\* the caller's session up to and including this one; invocations made in
\* another session do not show in it.
C27_OwnSessionStats ==
    \A i \in StatsReports :
        \A name \in WrappedTools :
            ReportedCount(i, name) = CountedUpTo(i, name, {inv[i].session})

\* what the code reports: the usage of the whole process, all sessions
\* and session-less callers together
C27_ProcessWideStats ==
    \A i \in StatsReports :
        \A name \in WrappedTools :
            ReportedCount(i, name) = CountedUpTo(i, name, Sessions)

====
